---- MODULE Spec2Model ----
(***************************************************************************)
(* Model of src/app.py: a Streamlit clipboard-sync page.  One dictionary   *)
(* {"data", "metadata", "timestamp"} is kept process-wide by               *)
(* @st.cache_resource(ttl=CACHE_TTL_SECONDS) and is written by             *)
(* set_clipboard_data and read by get_clipboard_data, from the page's      *)
(* widgets and from the ?action=get_data request.                          *)
(*                                                                         *)
(* Python values: None is the empty sequence and any other value v is the  *)
(* one-element sequence <<v>>, so that "is None" is a comparison TLC can   *)
(* evaluate on every value.  Metadata values are records (a dict is the    *)
(* record of its keys).                                                    *)
(***************************************************************************)
EXTENDS Integers, Sequences, FiniteSets, TLC

VARIABLES
    now,         \* the clock read by time.time() / datetime.utcnow(), seconds
    containers,  \* the dictionaries get_cache_container has returned and that
                 \* are still referenced, keyed by their creation time; the
                 \* newest one is the framework's cached entry
    secret,      \* st.secrets: the configured API_KEY, None when absent
    ret,         \* the last direct call of a function and what it returned;
                 \* ret.empties counts (up to 2) the get_clipboard_data calls
                 \* that returned empty since the last store of a payload
    lastSet,     \* the most recent set_clipboard_data call (history)
    out,         \* what the last script run showed and did
    sess         \* the script threads of the concurrent sessions

vars == <<now, containers, secret, ret, lastSet, out, sess>>

---------------------------------------------------------------------------
\* Configuration (src/app.py:11)
CACHE_TTL_SECONDS == 300

\* Bounds of the model
MaxInstants == 4
MaxStores == 2
NumThreads == 2

\* The instants the clock takes, in seconds since the epoch (time.time() is
\* never 0): the multiples of the TTL and the second after each, in order.
TimePoints ==
    {(1 + (i \div 2)) * CACHE_TTL_SECONDS + (i % 2) : i \in 0..(MaxInstants - 1)}

StartTime == CHOOSE t \in TimePoints : \A u \in TimePoints : t <= u

None == <<>>
Some(v) == <<v>>
Val(o) == o[1]

\* bool(x) of Python for a string or None
Truthy(o) == o # None /\ Val(o) # ""

---------------------------------------------------------------------------
\* Inputs
Texts == {"hello"}
Payloads == {"hello", "0123456789"}
\* keys a client sends or types, and the configured API_KEY (None: not set)
Keys == {"", "k1"}
ProvidedKeys == {None} \cup {Some(k) : k \in Keys}
Secrets == {None, Some(""), Some("k1")}
\* 'action' in st.query_params, for a run of the page; it is read only where
\* st.secrets has no API_KEY (line 112)
QueryHasAction == IF secret = None THEN BOOLEAN ELSE {FALSE}

TextMeta == [type |-> "text"]
FileMeta(kind, filename, mime, size) ==
    [type |-> kind, filename |-> filename, mime_type |-> mime, original_size |-> size]
\* a truthy metadata argument that is no dict (it has no .get)
NotAMapping == [notamapping |-> TRUE]
IsMapping(m) == "notamapping" \notin DOMAIN m
Metas ==
    {TextMeta, FileMeta("file", "a.bin", <<"application", "octet-stream">>, 10), NotAMapping}

\* dict.get(key, default)
DictGet(m, key, default) == IF key \in DOMAIN m THEN m[key] ELSE default

---------------------------------------------------------------------------
\* get_cache_container's body: the dictionary a (re)creation returns
NewContainer == [data |-> None, metadata |-> None, timestamp |-> None]

CachedId(cs) == CHOOSE i \in DOMAIN cs : \A j \in DOMAIN cs : j <= i

\* Whether the framework's entry has outlived ttl=CACHE_TTL_SECONDS.
CacheEntryOld(created, t) == t - created >= CACHE_TTL_SECONDS

\* @st.cache_resource(ttl=CACHE_TTL_SECONDS) get_cache_container(): the set of
\* outcomes [cs, id] of one call at time t.  With no entry the body runs.  A
\* younger entry than the ttl is returned as it is.  From the ttl on the
\* framework drops the entry and runs the body again; it measures the ttl on
\* its own timer, not on time.time(), so how late that is against the clock
\* of this code is not fixed by this code (see the comments at lines 77 and
\* 81): both outcomes are possible.
get_cache_container(cs, t, held) ==
    LET none == DOMAIN cs = {}
        old == ~none /\ CacheEntryOld(CachedId(cs), t)
        hit == IF none THEN {} ELSE {[cs |-> cs, id |-> CachedId(cs)]}
        miss == IF none \/ old
                THEN {[cs |-> [i \in (DOMAIN cs \cap held) |-> cs[i]] @@ (t :> NewContainer),
                       id |-> t]}
                ELSE {}
    IN  hit \cup miss

\* Lines 58-61: the three stores of set_clipboard_data into one dictionary.
WriteSlot(c, data, metadata, t) ==
    [data |-> data,
     metadata |-> metadata,
     timestamp |-> IF data # None THEN Some(t) ELSE None]

\* Line 62: the log line; metadata.get raises on a truthy non-dict.
LogLineRaises(data, metadata) ==
    data # None /\ metadata # None /\ ~IsMapping(Val(metadata))

\* A variant that returns early when there is nothing to store.
set_clipboard_data_skipNone(c, data, metadata, t) ==
    IF data = None
    THEN [c |-> c, result |-> TRUE]
    ELSE [c |-> WriteSlot(c, data, metadata, t),
          result |-> ~LogLineRaises(data, metadata)]

\* A variant that fails when asked to clear a dictionary that holds nothing.
set_clipboard_data_failOnEmpty(c, data, metadata, t) ==
    IF data = None /\ c.data = None
    THEN [c |-> c, result |-> FALSE]
    ELSE [c |-> WriteSlot(c, data, metadata, t),
          result |-> ~LogLineRaises(data, metadata)]

\* set_clipboard_data(data, metadata) on the dictionary c at time t:
\* the dictionary afterwards and the value returned.
set_clipboard_data(c, data, metadata, t) ==
    [c |-> WriteSlot(c, data, metadata, t),
     result |-> ~LogLineRaises(data, metadata)]

\* A variant that tests for the instant after the TTL alone.
Expired_equal(timestamp, t) == t = timestamp + CACHE_TTL_SECONDS

\* Line 82: the manual TTL check
Expired(timestamp, t) == t > timestamp + CACHE_TTL_SECONDS

\* A variant that leaves expiry to the framework's ttl alone.
get_clipboard_data_noTTL(c, t) ==
    IF c.timestamp = None THEN <<None, None>> ELSE <<c.data, c.metadata>>

\* get_clipboard_data() on the dictionary c at time t: the pair returned.
get_clipboard_data(c, t) ==
    IF c.timestamp = None
    THEN <<None, None>>
    ELSE IF Expired(Val(c.timestamp), t)
         THEN <<None, None>>
         ELSE <<c.data, c.metadata>>

\* A variant that empties the dictionary when it finds the item expired.
container_after_get_purge(c, t) ==
    IF c.timestamp # None /\ Expired(Val(c.timestamp), t) THEN NewContainer ELSE c

\* The dictionary c after get_clipboard_data() at time t (lines 74-92):
\* the function reads with .get and assigns no key; the stores of lines
\* 86-88 are comments.
container_after_get(c, t) == c

\* A variant that compares without asking for a non-empty key.
verify_api_key_noTruthy(provided_key, sec, hasAction) ==
    IF sec = None
    THEN [result |-> FALSE,
          errors |-> IF hasAction THEN {} ELSE {"API_KEY not found in Streamlit secrets."}]
    ELSE [result |-> provided_key = sec, errors |-> {}]

\* verify_api_key(provided_key): the value returned and the st.error shown.
\* sec is st.secrets' API_KEY (None: KeyError), hasAction is
\* 'action' in st.query_params.
verify_api_key(provided_key, sec, hasAction) ==
    IF sec = None
    THEN [result |-> FALSE,
          errors |-> IF hasAction THEN {} ELSE {"API_KEY not found in Streamlit secrets."}]
    ELSE [result |-> Truthy(provided_key) /\ provided_key = sec,
          errors |-> {}]

---------------------------------------------------------------------------
\* Initial state: the process has started, nothing is cached, no script ran.
Threads == 1..NumThreads

\* A script thread outside set_clipboard_data and get_clipboard_data.
Idle ==
    [pc |-> "idle", op |-> "none", call |-> 0, data |-> None, metadata |-> None,
     container |-> 0, timestamp |-> None, tsBy |-> 0, d |-> None, dBy |-> 0,
     mBy |-> 0, returned |-> None]

NoCall == [fn |-> "none", empties |-> 0]
NoSet == [called |-> FALSE]
NoRun == [kind |-> "none"]

Init ==
    /\ now = StartTime
    /\ containers = <<>>
    /\ secret \in Secrets
    /\ ret = NoCall
    /\ lastSet = NoSet
    /\ out = NoRun
    /\ sess = [th |-> [i \in Threads |-> Idle], by |-> <<>>, n |-> 0]

\* Time passes.
Tick ==
    /\ \E t \in TimePoints : t > now /\ now' = t
    /\ UNCHANGED <<containers, secret, ret, lastSet, out, sess>>

---------------------------------------------------------------------------
\* Direct calls of the functions, with every argument

CallSet(data, metadata) ==
    /\ \E g \in get_cache_container(containers, now, {}) :
         LET r == set_clipboard_data(g.cs[g.id], data, metadata, now)
         IN  /\ containers' = [g.cs EXCEPT ![g.id] = r.c]
             /\ ret' = [fn |-> "set", at |-> now, data |-> data,
                        metadata |-> metadata, result |-> r.result,
                        before |-> g.cs[g.id],
                        empties |-> IF data # None THEN 0 ELSE ret.empties]
             /\ lastSet' = [called |-> TRUE, at |-> now, data |-> data,
                            metadata |-> metadata, result |-> r.result]
    /\ UNCHANGED <<now, secret, out, sess>>

CallGet ==
    /\ \E g \in get_cache_container(containers, now, {}) :
         /\ containers' = [g.cs EXCEPT ![g.id] = container_after_get(g.cs[g.id], now)]
         /\ ret' = [fn |-> "get", at |-> now,
                    result |-> get_clipboard_data(g.cs[g.id], now),
                    empties |-> IF get_clipboard_data(g.cs[g.id], now) = <<None, None>>
                                THEN (IF ret.empties < 2 THEN ret.empties + 1 ELSE 2)
                                ELSE ret.empties]
    /\ UNCHANGED <<now, secret, lastSet, out, sess>>

CallVerify(provided_key, hasAction) ==
    /\ ret' = [fn |-> "verify", at |-> now, key |-> provided_key,
               hasAction |-> hasAction,
               result |-> verify_api_key(provided_key, secret, hasAction),
               empties |-> ret.empties]
    /\ UNCHANGED <<now, containers, secret, lastSet, out, sess>>

\* C1: set_clipboard_data(P, M) with P not None, then get_clipboard_data()
\* with no set in between and no more than the TTL later, returns (P, M).
C1_StoreThenFetch ==
    (/\ ret.fn = "get"
     /\ lastSet.called
     /\ lastSet.data # None
     /\ ret.at <= lastSet.at + CACHE_TTL_SECONDS)
    => ret.result = <<lastSet.data, lastSet.metadata>>

\* C2: after a store at t0, every fetch at t with t0 <= t < t0 + TTL and no
\* set in between returns the stored pair, whatever the age of the cached
\* dictionary was when the store was made.
C2_ValidForTTLFromStore ==
    \A t0 \in TimePoints :
        (/\ ret.fn = "get"
         /\ lastSet.called
         /\ lastSet.data # None
         /\ lastSet.at = t0
         /\ t0 <= ret.at
         /\ ret.at < t0 + CACHE_TTL_SECONDS)
        => (ret.result[1] = lastSet.data /\ ret.result[2] = lastSet.metadata)

\* C8: verify_api_key(k) is True exactly when k is non-empty and equal to
\* the configured key; for k empty or None it is False for every
\* configuration, the empty configured key included.
C8_VerifyKeyIff ==
    ret.fn = "verify" =>
        /\ ret.result.result =
              (/\ ret.key # None
               /\ ret.key # Some("")
               /\ secret # None
               /\ Val(ret.key) = Val(secret))
        /\ (ret.key \in {None, Some("")} => ret.result.result = FALSE)

C8_Witness ==
    /\ ret.fn = "verify"
    /\ ret.key = Some("")
    /\ secret = Some("")
    /\ ret.result.result = FALSE

\* C10: after set_clipboard_data(None, M), for every M, the cached
\* dictionary has data, metadata and timestamp all None.
C10_StoreNoneIsClear ==
    (ret.fn = "set" /\ ret.data = None) =>
        LET c == containers[CachedId(containers)]
        IN  c.data = None /\ c.metadata = None /\ c.timestamp = None

\* C13: when set_clipboard_data returns False, data, metadata and
\* timestamp of the dictionary are what they were before the call.
C13_FailedStoreLeavesSlot ==
    (ret.fn = "set" /\ ret.result = FALSE) =>
        containers[CachedId(containers)] = ret.before

\* C18: no resurrection.  Once a get_clipboard_data has returned
\* (None, None), whether the slot was never filled, was cleared, or its item
\* expired, every later get_clipboard_data returns (None, None) until a
\* set_clipboard_data with a payload is called; the clock does not go back.
C18_NoResurrection ==
    [][(ret.empties > 0 /\ ret'.fn = "get") => ret'.result = <<None, None>>]_vars

\* two fetches in a row found empty a slot whose dictionary still holds the
\* expired item
C18_Witness ==
    /\ ret.fn = "get"
    /\ ret.empties = 2
    /\ ret.result = <<None, None>>
    /\ lastSet.called
    /\ lastSet.data # None
    /\ containers[CachedId(containers)].data = lastSet.data
    /\ containers[CachedId(containers)].timestamp # None

NextCalls ==
    \/ Tick
    \/ \E data \in {None} \cup {Some(p) : p \in Payloads},
          metadata \in {None} \cup {Some(m) : m \in Metas} : CallSet(data, metadata)
    \/ CallGet
    \/ \E k \in ProvidedKeys \cup {Some("k2")}, a \in BOOLEAN : CallVerify(k, a)

SpecCalls == Init /\ [][NextCalls]_vars

---------------------------------------------------------------------------
\* The page: one script run per request or widget event

\* Uploaded files: name, bytes, and the MIME type as <<major, minor>>
\* ("image/png" is <<"image", "png">>), None where mimetypes has no guess.
Files ==
    {[name |-> "a.png", bytes |-> "0123456789", size |-> 10],
     [name |-> "a.txt", bytes |-> "", size |-> 0],
     [name |-> "noext", bytes |-> "0123456789", size |-> 10]}

\* mimetypes.guess_type(filename)[0]
GuessType(filename) ==
    CASE filename = "a.png" -> Some(<<"image", "png">>)
      [] filename = "a.txt" -> Some(<<"text", "plain">>)
      [] OTHER -> None

\* Lines 291-297: the metadata handle_file_upload builds
UploadMetadata(file) ==
    LET guess == GuessType(file.name)
        mime_type == IF guess = None THEN <<"application", "octet-stream">> ELSE Val(guess)
        content_kind == IF mime_type[1] = "image" THEN "image" ELSE "file"
    IN  [type |-> content_kind, filename |-> file.name,
         mime_type |-> mime_type, original_size |-> file.size]

NoEffect(c) == [c |-> c, set |-> None, msgs |-> {}]

\* The state of the slot a reader at time t would find in the dictionary c.
SlotState(c, t) ==
    IF c.timestamp = None THEN "empty"
    ELSE IF t > Val(c.timestamp) + CACHE_TTL_SECONDS THEN "expired"
    ELSE "valid"

\* The cached dictionary on a call that follows another call of the same
\* run: the run is one instant, which the first call has settled.
SameRun(cs) == {[cs |-> cs, id |-> CachedId(cs)]}

\* handle_file_upload(): the on_change callback of the file uploader;
\* uploaded is st.session_state.file_uploader (None when the file was removed).
\* The messages are the fixed part of the f-strings.
handle_file_upload(c, uploaded, t) ==
    IF uploaded = None
    THEN NoEffect(c)
    ELSE LET file == Val(uploaded)
             metadata == UploadMetadata(file)
             r == set_clipboard_data(c, Some(file.bytes), Some(metadata), t)
         IN  [c |-> r.c,
              set |-> Some([data |-> Some(file.bytes), metadata |-> Some(metadata),
                            result |-> r.result]),
              msgs |-> IF r.result THEN {"saved to cache!"}
                       ELSE {"Failed to save to cache."}]

\* A variant that stores whatever the text area holds.
save_text_button_noCheck(c, text_to_save, t) ==
    LET r == set_clipboard_data(c, Some(text_to_save), Some(TextMeta), t)
    IN  [c |-> r.c,
         set |-> Some([data |-> Some(text_to_save), metadata |-> Some(TextMeta),
                       result |-> r.result]),
         msgs |-> IF r.result THEN {"Text saved to cache!"}
                  ELSE {"Failed to save text to cache."}]

\* Lines 328-337: the "Save Text" button; text_to_save is the text area.
save_text_button(c, text_to_save, t) ==
    IF text_to_save # ""
    THEN LET r == set_clipboard_data(c, Some(text_to_save), Some(TextMeta), t)
         IN  [c |-> r.c,
              set |-> Some([data |-> Some(text_to_save), metadata |-> Some(TextMeta),
                            result |-> r.result]),
              msgs |-> IF r.result THEN {"Text saved to cache!"}
                       ELSE {"Failed to save text to cache."}]
    ELSE [c |-> c, set |-> None,
          msgs |-> {"Please paste text in the text area before saving."}]

\* Lines 339-354: the "Clear" button.
clear_button(c, t) ==
    LET r == set_clipboard_data(c, None, None, t)
    IN  [c |-> r.c,
         set |-> Some([data |-> None, metadata |-> None, result |-> r.result]),
         msgs |-> IF r.result
                  THEN {"Cache cleared successfully."}
                  ELSE IF get_clipboard_data(r.c, t)[1] = None /\ r.c.timestamp = None
                       THEN {"Cache is already empty or expired."}
                       ELSE {"Failed to clear cache."}]

\* A variant that serves the text to every caller that sends some key.
handle_api_request_unverified(api_key, sec, c, t) ==
    IF ~Truthy(api_key)
    THEN [outcome |-> "missing_key",
          msgs |-> {"API Error: Missing 'key' parameter."},
          calls |-> <<>>, verified |-> None, fetched |-> None,
          rendered |-> None, stopped |-> TRUE]
    ELSE LET f == get_clipboard_data(c, t)
         IN  [outcome |-> IF f[1] # None THEN "text" ELSE "no_data",
              msgs |-> {}, calls |-> <<"get_clipboard_data">>, verified |-> None,
              fetched |-> Some(f), rendered |-> f[1], stopped |-> TRUE]

\* Lines 131-175 of handle_api_request: the request once line 127 has let
\* the key pass.
handle_api_request_with_key(api_key, sec, c, t) ==
    LET v == verify_api_key(api_key, sec, TRUE)
    IN  IF ~v.result
        THEN [outcome |-> "invalid_key",
              msgs |-> {"API Error: Invalid API Key."} \cup v.errors,
              calls |-> <<"verify_api_key">>, verified |-> Some(FALSE),
              fetched |-> None, rendered |-> None, stopped |-> TRUE]
        ELSE LET f == get_clipboard_data(c, t)
                 data == f[1]
                 metadata == f[2]
                 both == <<"verify_api_key", "get_clipboard_data">>
             IN  IF data # None /\ metadata # None
                 THEN LET content_type == DictGet(Val(metadata), "type", "")
                      IN  IF content_type = "text"
                          THEN [outcome |-> "text", msgs |-> v.errors,
                                calls |-> both, verified |-> Some(TRUE),
                                fetched |-> Some(f), rendered |-> data,
                                stopped |-> TRUE]
                          ELSE IF content_type \in {"image", "file"}
                          THEN [outcome |-> content_type, msgs |-> v.errors,
                                calls |-> both, verified |-> Some(TRUE),
                                fetched |-> Some(f), rendered |-> data,
                                stopped |-> TRUE]
                          ELSE [outcome |-> "unknown_type",
                                msgs |-> {"Unknown data type in cache."} \cup v.errors,
                                calls |-> both, verified |-> Some(TRUE),
                                fetched |-> Some(f), rendered |-> None,
                                stopped |-> TRUE]
                 ELSE [outcome |-> "no_data",
                       msgs |-> {"API Key Valid, but no data currently in cache (or cache expired)."}
                                \cup v.errors,
                       calls |-> both, verified |-> Some(TRUE),
                       fetched |-> Some(f), rendered |-> None, stopped |-> TRUE]

\* A variant without the st.stop() of line 129: after the missing-key error
\* the run goes on to verify_api_key.
handle_api_request_noStop(api_key, sec, c, t) ==
    LET r == handle_api_request_with_key(api_key, sec, c, t)
    IN  IF ~Truthy(api_key)
        THEN [r EXCEPT !.msgs = r.msgs \cup {"API Error: Missing 'key' parameter."}]
        ELSE r

\* handle_api_request() for ?action=get_data&key=api_key, where c is the
\* dictionary get_clipboard_data reads: what the run shows and calls.
handle_api_request(api_key, sec, c, t) ==
    IF ~Truthy(api_key)
    THEN [outcome |-> "missing_key",
          msgs |-> {"API Error: Missing 'key' parameter."},
          calls |-> <<>>, verified |-> None, fetched |-> None,
          rendered |-> None, stopped |-> TRUE]
    ELSE handle_api_request_with_key(api_key, sec, c, t)

EmptyOrExpired == "Cache is currently empty or expired."

\* A variant that counts the last second of the item as expired.
TimeLeftShown_strict(time_left) == time_left > 0

\* Line 377: time_left.total_seconds() >= 0, the debugging section's own
\* expiry decision (time_left in seconds).
TimeLeftShown(time_left) == time_left >= 0

\* Lines 364-424: the debugging section.  c1 is the dictionary
\* get_clipboard_data reads, c2 the one line 366 reads the timestamp from,
\* debug_api_key the text input.
debug_section(c1, c2, debug_api_key, sec, hasAction, t) ==
    LET f == get_clipboard_data(c1, t)
        cached_data_debug == f[1]
        cached_metadata_debug == f[2]
        timestamp_utc_float == IF cached_data_debug # None THEN c2.timestamp ELSE None
        hidden == [outcome |-> "empty", msgs |-> {EmptyOrExpired},
                   calls |-> <<"get_clipboard_data">>, verified |-> None,
                   fetched |-> Some(f), rendered |-> None, stopped |-> FALSE,
                   present |-> FALSE]
    IN  IF timestamp_utc_float # None /\ Val(timestamp_utc_float) # 0
        THEN LET time_left == (Val(timestamp_utc_float) + CACHE_TTL_SECONDS) - t
             IN  IF TimeLeftShown(time_left)
                 THEN LET v == verify_api_key(Some(debug_api_key), sec, hasAction)
                          info == {"Cache contains data stored at", "Cache expires around"}
                          base == [hidden EXCEPT
                                     !.outcome = "present", !.present = TRUE,
                                     !.calls = <<"get_clipboard_data", "verify_api_key">>,
                                     !.verified = Some(v.result)]
                      IN  IF v.result
                          THEN IF cached_data_debug # None /\ cached_metadata_debug # None
                               THEN [base EXCEPT
                                       !.msgs = info \cup v.errors
                                                \cup {"API Key Valid. Displaying content:"},
                                       !.rendered =
                                          IF DictGet(Val(cached_metadata_debug), "type", "unknown")
                                                \in {"text", "image", "file"}
                                          THEN cached_data_debug
                                          ELSE None]
                               ELSE [base EXCEPT
                                       !.msgs = info \cup v.errors
                                                \cup {"API Key Valid. Displaying content:",
                                                      "Cache timestamp exists, but data/metadata seems missing now."}]
                          ELSE IF debug_api_key # ""
                               THEN [base EXCEPT
                                       !.msgs = info \cup v.errors
                                                \cup {"Invalid API Key provided for debug view."}]
                               ELSE [base EXCEPT !.msgs = info \cup v.errors]
                 ELSE hidden
        ELSE hidden

\* A request with ?action=get_data: handle_api_request ends the run.
ApiRequest(api_key) ==
    /\ \E g \in get_cache_container(containers, now, {}) :
         LET r == handle_api_request(api_key, secret, g.cs[g.id], now)
             read == r.fetched # None
         IN  /\ containers' = IF read
                              THEN [g.cs EXCEPT
                                      ![g.id] = container_after_get(g.cs[g.id], now)]
                              ELSE containers
             /\ out' = r @@ [kind |-> "api", at |-> now, key |-> api_key,
                             event |-> "none", present |-> FALSE, prior |-> "n/a",
                             again |-> FALSE, action |-> TRUE,
                             seen |-> IF read THEN Some(g.cs[g.id]) ELSE None]
    /\ UNCHANGED <<now, secret, ret, lastSet, sess>>

\* The rest of a run of the page after its event: the debugging section.
\* first is the outcome of the run's first get_cache_container call when the
\* event made one (None otherwise), cs the cache after the event, e the
\* event's effect, prior the slot the event found (history); again tells a
\* clear that follows a clear (history).
PageRun(event, first, cs, e, prior, debug_api_key, hasAction) ==
    \E g1 \in (IF first = None THEN get_cache_container(cs, now, {}) ELSE SameRun(cs)) :
      LET c1 == g1.cs[g1.id]
          g2 == CHOOSE g \in SameRun([g1.cs EXCEPT
                                        ![g1.id] = container_after_get(c1, now)]) : TRUE
          c2 == g2.cs[g2.id]
          d == debug_section(c1, c2, debug_api_key, secret, hasAction, now)
      IN  /\ containers' = g2.cs
          /\ out' = [d EXCEPT !.msgs = d.msgs \cup e.msgs,
                              !.calls = (IF e.set # None
                                         THEN <<"set_clipboard_data">> ELSE <<>>) \o d.calls]
                    @@ [kind |-> "ui", at |-> now, key |-> Some(debug_api_key),
                        event |-> event, seen |-> Some(c1), prior |-> prior,
                        again |-> event = "clear" /\ out.kind = "ui" /\ out.event = "clear",
                        action |-> hasAction]
          /\ lastSet' = IF e.set # None
                        THEN Val(e.set) @@ [called |-> TRUE, at |-> now]
                        ELSE lastSet

\* A run of the page with no widget event (load, refresh, typing the key).
RunPlain(debug_api_key, hasAction) ==
    /\ PageRun("none", None, containers, [set |-> None, msgs |-> {}], "n/a",
               debug_api_key, hasAction)
    /\ UNCHANGED <<now, secret, ret, sess>>

\* The file uploader changed: the callback, then the page; the callback
\* calls set_clipboard_data only when there is a file.
RunUpload(uploaded, debug_api_key, hasAction) ==
    /\ IF handle_file_upload(NewContainer, uploaded, now).set = None
       THEN PageRun("upload", None, containers,
                    handle_file_upload(NewContainer, uploaded, now), "n/a",
                    debug_api_key, hasAction)
       ELSE \E g \in get_cache_container(containers, now, {}) :
              LET e == handle_file_upload(g.cs[g.id], uploaded, now)
              IN  PageRun("upload", Some(g), [g.cs EXCEPT ![g.id] = e.c], e,
                          SlotState(g.cs[g.id], now), debug_api_key, hasAction)
    /\ UNCHANGED <<now, secret, ret, sess>>

\* "Save Text" pressed; set_clipboard_data, and get_cache_container with it,
\* is called only when the handler stores (which no dictionary decides).
RunSaveText(text_to_save, debug_api_key, hasAction) ==
    /\ IF save_text_button(NewContainer, text_to_save, now).set = None
       THEN PageRun("save", None, containers,
                    save_text_button(NewContainer, text_to_save, now), "n/a",
                    debug_api_key, hasAction)
       ELSE \E g \in get_cache_container(containers, now, {}) :
              LET e == save_text_button(g.cs[g.id], text_to_save, now)
              IN  PageRun("save", Some(g), [g.cs EXCEPT ![g.id] = e.c], e,
                          SlotState(g.cs[g.id], now), debug_api_key, hasAction)
    /\ UNCHANGED <<now, secret, ret, sess>>

\* "Clear" pressed.
RunClear(debug_api_key, hasAction) ==
    /\ \E g \in get_cache_container(containers, now, {}) :
         LET e == clear_button(g.cs[g.id], now)
         IN  PageRun("clear", Some(g), [g.cs EXCEPT ![g.id] = e.c], e,
                     SlotState(g.cs[g.id], now), debug_api_key, hasAction)
    /\ UNCHANGED <<now, secret, ret, sess>>

MissingKeyError == "API Error: Missing 'key' parameter."
InvalidKeyError == "API Error: Invalid API Key."
NoDataInfo == "API Key Valid, but no data currently in cache (or cache expired)."

\* The dictionary the run's get_clipboard_data read held a timestamp that
\* the run's clock had passed by more than the TTL.
ReadExpiredSlot ==
    /\ out.kind \in {"api", "ui"}
    /\ out.seen # None
    /\ Val(out.seen).timestamp # None
    /\ out.at > Val(Val(out.seen).timestamp) + CACHE_TTL_SECONDS

\* C3: when the timestamp is set and now > timestamp + TTL, every reader
\* treats the slot as empty although the dictionary still holds the payload:
\* get_clipboard_data returns (None, None), the get_data request reports no
\* data, the debugging section reports empty or expired.
C3_ExpiredReadsAsEmpty ==
    ReadExpiredSlot =>
        /\ out.fetched = Some(<<None, None>>)
        /\ out.rendered = None
        /\ out.kind = "api" => (out.outcome = "no_data" /\ NoDataInfo \in out.msgs)
        /\ out.kind = "ui" => (~out.present /\ EmptyOrExpired \in out.msgs)

C3_Witness ==
    /\ ReadExpiredSlot
    /\ Val(out.seen).data # None
    /\ out.kind = "api"
    /\ out.outcome = "no_data"

\* C7: a get_data request renders the payload only for a non-empty key that
\* verify_api_key accepted in that request; with no key neither
\* verify_api_key nor get_clipboard_data is called and the missing-key error
\* is shown; with a wrong key get_clipboard_data is not called and the
\* invalid-key error is shown.  The debugging section shows the content only
\* after verify_api_key returned True.
C7_ContentOnlyWithValidKey ==
    /\ out.kind = "api" =>
         /\ out.rendered # None =>
              (Truthy(out.key) /\ out.verified = Some(TRUE) /\ out.key = secret)
         /\ ~Truthy(out.key) =>
              (out.calls = <<>> /\ out.msgs = {MissingKeyError} /\ out.rendered = None)
         /\ (Truthy(out.key) /\ out.key # secret) =>
              /\ out.calls = <<"verify_api_key">>
              /\ InvalidKeyError \in out.msgs
              /\ out.fetched = None
              /\ out.rendered = None
    /\ out.kind = "ui" =>
         (out.rendered # None => (out.verified = Some(TRUE) /\ out.key = secret))

C7_Witness ==
    /\ out.kind = "api"
    /\ out.rendered = Some("hello")
    /\ out.verified = Some(TRUE)

\* C9: for every prior state of the slot, after a clear the next
\* get_clipboard_data returns (None, None), and the clear reports success.
C9_ClearThenFetchEmpty ==
    (lastSet.called /\ lastSet.data = None /\ lastSet.metadata = None) =>
        /\ lastSet.result = TRUE
        /\ (out.kind \in {"api", "ui"} /\ out.fetched # None)
             => out.fetched = Some(<<None, None>>)
        /\ (out.kind = "ui" /\ out.event = "clear")
             => ("Cache cleared successfully." \in out.msgs /\ out.fetched # None)

C9_Witness ==
    /\ lastSet.called
    /\ lastSet.data = None
    /\ out.kind = "ui"
    /\ out.event = "clear"
    /\ out.prior = "valid"
    /\ out.fetched = Some(<<None, None>>)

\* C11: the debugging section shows the slot as present ("stored at",
\* "expires around", time left) exactly when get_clipboard_data, on the
\* same dictionary at the same instant, returns data; at the boundary
\* now = timestamp + TTL both take the item as still valid, and the section
\* never shows as present a slot that get_clipboard_data reports empty.
C11_StatusAgreesWithFetch ==
    out.kind = "ui" =>
        LET f == get_clipboard_data(Val(out.seen), out.at)
            info == {"Cache contains data stored at", "Cache expires around"}
        IN  /\ out.present <=> (f[1] # None)
            /\ out.present <=> (info \subseteq out.msgs)
            /\ ~out.present <=> (EmptyOrExpired \in out.msgs)
            /\ (/\ Val(out.seen).timestamp # None
                /\ out.at = Val(Val(out.seen).timestamp) + CACHE_TTL_SECONDS)
               => (out.present /\ f[1] # None)

\* a run at exactly timestamp + TTL that shows the item
C11_Witness ==
    /\ out.kind = "ui"
    /\ Val(out.seen).timestamp # None
    /\ out.at = Val(Val(out.seen).timestamp) + CACHE_TTL_SECONDS
    /\ out.present
    /\ Val(out.fetched)[1] # None

\* A run that only reads: a get_data request, or the page with no event.
ReadOnlyRun ==
    \/ \E k \in ProvidedKeys : out'.kind = "api" /\ out'.key = k /\ ApiRequest(k)
    \/ \E k \in Keys, a \in QueryHasAction :
         /\ out'.kind = "ui"
         /\ out'.event = "none"
         /\ out'.key = Some(k)
         /\ out'.action = a
         /\ RunPlain(k, a)

\* What a step may do to the cache without storing: nothing, or the
\* framework putting a new dictionary in the place of the entry that has
\* outlived its ttl (or of no entry).
FrameworkOnly ==
    \/ containers' = containers
    \/ /\ containers' = (now :> NewContainer)
       /\ (DOMAIN containers = {} \/ CacheEntryOld(CachedId(containers), now))

\* C12: the read paths store nothing.  A get_data request (whatever its
\* outcome, so verify_api_key and get_clipboard_data with it) and a run of
\* the page that only renders the debugging section leave data, metadata
\* and timestamp of the dictionary as they were; the dictionary that
\* get_clipboard_data read is afterwards the cached one, unchanged: an
\* expired item is still there and the timestamp of a returned item is not
\* renewed.
C12_ReadsLeaveSlot ==
    [][ReadOnlyRun =>
         /\ FrameworkOnly
         /\ lastSet' = lastSet
         /\ out'.seen # None =>
               containers'[CachedId(containers')] = Val(out'.seen)]_vars

\* a run of the page that found an expired item and left it in place
C12_Witness ==
    /\ ReadExpiredSlot
    /\ out.kind = "ui"
    /\ out.event = "none"
    /\ Val(out.seen).data # None
    /\ containers[CachedId(containers)] = Val(out.seen)

EmptyTextWarning == "Please paste text in the text area before saving."

\* A get_data request whose key is missing or is not the configured one.
RefusedRequest ==
    /\ out'.kind = "api"
    /\ \E k \in ProvidedKeys :
         ~(Truthy(k) /\ k = secret) /\ out'.key = k /\ ApiRequest(k)

\* "Save Text" with an empty text area, or the uploader's change event
\* with no file.
EmptyInputRun ==
    \E k \in Keys, a \in QueryHasAction :
        /\ out'.kind = "ui"
        /\ out'.key = Some(k)
        /\ out'.action = a
        /\ \/ out'.event = "save" /\ RunSaveText("", k, a)
           \/ out'.event = "upload" /\ RunUpload(None, k, a)

\* C14: the error outcomes store nothing.  A get_data request with a
\* missing or an invalid key leaves the cache as it is, without a call of
\* get_clipboard_data; "Save Text" with an empty text area shows the warning
\* and, like the uploader's change event with no file, does not call
\* set_clipboard_data: data, metadata and timestamp of the dictionary stay
\* as they were (the rest of the run, the debugging section, reads them).
C14_ErrorsLeaveSlot ==
    [][/\ RefusedRequest =>
            /\ containers' = containers
            /\ lastSet' = lastSet
            /\ out'.outcome \in {"missing_key", "invalid_key"}
            /\ out'.fetched = None
       /\ EmptyInputRun =>
            /\ FrameworkOnly
            /\ lastSet' = lastSet
            /\ out'.calls[1] # "set_clipboard_data"
            /\ containers'[CachedId(containers')] = Val(out'.seen)
            /\ out'.event = "save" => EmptyTextWarning \in out'.msgs]_vars

\* the warning of the empty text area, shown over an item that is still there
C14_Witness ==
    /\ out.kind = "ui"
    /\ out.event = "save"
    /\ EmptyTextWarning \in out.msgs
    /\ out.present
    /\ lastSet.called
    /\ containers[CachedId(containers)] =
          [data |-> lastSet.data, metadata |-> lastSet.metadata,
           timestamp |-> Some(lastSet.at)]

ClearedSuccess == "Cache cleared successfully."

\* C15: "Clear" is idempotent.  Whatever the slot held, a clear reports
\* success and leaves data, metadata and timestamp None; a clear that
\* follows a clear finds the slot as the first one left it, reports success
\* again and leaves the same state.
C15_ClearIdempotent ==
    (out.kind = "ui" /\ out.event = "clear") =>
        /\ ClearedSuccess \in out.msgs
        /\ out.msgs \cap {"Cache is already empty or expired.", "Failed to clear cache."} = {}
        /\ lastSet = [called |-> TRUE, at |-> out.at, data |-> None,
                      metadata |-> None, result |-> TRUE]
        /\ containers[CachedId(containers)] = NewContainer
        /\ out.again => out.prior = "empty"

\* the second of two clears in a row
C15_Witness ==
    /\ out.kind = "ui"
    /\ out.event = "clear"
    /\ out.again
    /\ ClearedSuccess \in out.msgs
    /\ containers[CachedId(containers)] = NewContainer

ConfigError == "API_KEY not found in Streamlit secrets."

\* C16: with no API_KEY configured verify_api_key returns False for every
\* key and nothing is rendered; the configuration error is not shown in a
\* run whose query has 'action'; and it is shown once: a run that follows
\* a run which showed it does not show it again.
C16_ConfigErrorOnce ==
    /\ [](secret = None /\ out.kind # "none" =>
             /\ out.verified \in {None, Some(FALSE)}
             /\ out.rendered = None
             /\ out.action => ConfigError \notin out.msgs)
    /\ [][(now' = now /\ out.kind # "none" /\ ConfigError \in out.msgs)
             => ConfigError \notin out'.msgs]_vars

UnknownTypeWarning == "Unknown data type in cache."

\* What the main body of the page shows and calls.
PageMessages ==
    {EmptyOrExpired, "Cache contains data stored at", "Cache expires around",
     "API Key Valid. Displaying content:", "Invalid API Key provided for debug view.",
     "Text saved to cache!", "saved to cache!", ClearedSuccess, EmptyTextWarning}

\* C17: a get_data request ends inside handle_api_request, with st.stop(),
\* in exactly one of: missing key, invalid key, valid key and no data (or
\* expired), text rendered, image or file rendered, unknown type.  It shows
\* and calls nothing of the main body of the page, and the messages for no
\* key, wrong key and no data are three different messages, one per outcome.
C17_ApiRequestOneOutcome ==
    out.kind = "api" =>
        LET errors == {MissingKeyError, InvalidKeyError, NoDataInfo, UnknownTypeWarning}
        IN  /\ out.stopped
            /\ out.outcome \in {"missing_key", "invalid_key", "no_data",
                                "text", "image", "file", "unknown_type"}
            /\ Cardinality(out.msgs \cap errors)
                  + (IF out.rendered # None THEN 1 ELSE 0) = 1
            /\ (out.outcome = "missing_key") <=> (MissingKeyError \in out.msgs)
            /\ (out.outcome = "missing_key") <=> ~Truthy(out.key)
            /\ (out.outcome = "invalid_key") <=> (InvalidKeyError \in out.msgs)
            /\ (out.outcome = "no_data") <=> (NoDataInfo \in out.msgs)
            /\ (out.outcome = "unknown_type") <=> (UnknownTypeWarning \in out.msgs)
            /\ (out.outcome \in {"text", "image", "file"}) <=> (out.rendered # None)
            /\ Cardinality({MissingKeyError, InvalidKeyError, NoDataInfo}) = 3
            /\ out.msgs \cap PageMessages = {}
            /\ \A i \in DOMAIN out.calls :
                  out.calls[i] \in {"verify_api_key", "get_clipboard_data"}

\* a request that ended with the page of an uploaded image
C17_Witness ==
    /\ out.kind = "api"
    /\ out.outcome = "image"
    /\ out.stopped
    /\ out.msgs = {}

Next ==
    \/ Tick
    \/ \E k \in ProvidedKeys : ApiRequest(k)
    \/ \E k \in Keys, a \in QueryHasAction : RunPlain(k, a)
    \/ \E u \in {None} \cup {Some(f) : f \in Files}, k \in Keys, a \in QueryHasAction :
         RunUpload(u, k, a)
    \/ \E x \in {""} \cup Texts, k \in Keys, a \in QueryHasAction : RunSaveText(x, k, a)
    \/ \E k \in Keys, a \in QueryHasAction : RunClear(k, a)

Spec == Init /\ [][Next]_vars

---------------------------------------------------------------------------
\* Concurrent sessions: every session's script runs in a thread of its own,
\* all on the one cached dictionary, and threads switch between the
\* statements of set_clipboard_data and get_clipboard_data.
\* sess.th[i] is thread i's place and locals; sess.by (history) names, for
\* every field of every dictionary, the set_clipboard_data call that wrote it
\* (0: the value get_cache_container created it with).

\* What the page can store: a pasted text, an upload, or the clear.
Items ==
    {[data |-> Some("hello"), metadata |-> Some(TextMeta)],
     [data |-> Some("0123456789"),
      metadata |-> Some(FileMeta("file", "a.bin", <<"application", "octet-stream">>, 10))],
     [data |-> None, metadata |-> None]}

Unwritten == [data |-> 0, metadata |-> 0, timestamp |-> 0]
ByOf(by, id) == IF id \in DOMAIN by THEN by[id] ELSE Unwritten

\* The dictionaries that threads other than th hold in their local "container".
HeldBut(th) ==
    {sess.th[i].container : i \in {j \in Threads : j # th /\ sess.th[j].pc \notin {"idle", "done"}}}

\* Dictionaries nobody refers to any more are gone.
Release(cs, by, held) ==
    LET keep == {j \in DOMAIN cs : j = CachedId(cs) \/ j \in held}
    IN  [cs |-> [i \in keep |-> cs[i]],
         by |-> [i \in keep \cap DOMAIN by |-> by[i]]]

Returns(th, t, value) ==
    LET r == Release(containers, sess.by, HeldBut(th))
    IN  /\ containers' = r.cs
        /\ sess' = [sess EXCEPT !.th[th] = [t EXCEPT !.pc = "done", !.returned = Some(value)],
                                !.by = r.by]

\* Line 57: a thread enters set_clipboard_data(data, metadata).
StartSet(th, item) ==
    /\ sess.th[th].pc \in {"idle", "done"}
    /\ sess.n < MaxStores
    /\ \E g \in get_cache_container(containers, now, HeldBut(th)) :
         /\ containers' = g.cs
         /\ sess' = [sess EXCEPT
                       !.th[th] = [Idle EXCEPT !.pc = "set_58", !.op = "set",
                                               !.call = sess.n + 1,
                                               !.data = item.data,
                                               !.metadata = item.metadata,
                                               !.container = g.id],
                       !.n = sess.n + 1,
                       !.by = [i \in DOMAIN g.cs \cap DOMAIN sess.by |-> sess.by[i]]]
    /\ UNCHANGED <<now, secret, ret, lastSet, out>>

\* Line 58: container["data"] = data
SetData(th) ==
    LET t == sess.th[th]
        c == containers[t.container]
    IN  /\ t.pc = "set_58"
        /\ containers' = [containers EXCEPT
                            ![t.container].data = WriteSlot(c, t.data, t.metadata, now).data]
        /\ sess' = [sess EXCEPT
                      !.th[th].pc = "set_59",
                      !.by = (t.container :> [ByOf(sess.by, t.container) EXCEPT !.data = t.call])
                             @@ sess.by]
        /\ UNCHANGED <<now, secret, ret, lastSet, out>>

\* Line 59: container["metadata"] = metadata
SetMetadata(th) ==
    LET t == sess.th[th]
        c == containers[t.container]
    IN  /\ t.pc = "set_59"
        /\ containers' = [containers EXCEPT
                            ![t.container].metadata = WriteSlot(c, t.data, t.metadata, now).metadata]
        /\ sess' = [sess EXCEPT
                      !.th[th].pc = "set_61",
                      !.by = (t.container :> [ByOf(sess.by, t.container) EXCEPT !.metadata = t.call])
                             @@ sess.by]
        /\ UNCHANGED <<now, secret, ret, lastSet, out>>

\* Lines 61-64: container["timestamp"] = ..., the log line, return True
SetTimestamp(th) ==
    LET t == sess.th[th]
        c == containers[t.container]
        cs == [containers EXCEPT
                 ![t.container].timestamp = WriteSlot(c, t.data, t.metadata, now).timestamp]
        by == (t.container :> [ByOf(sess.by, t.container) EXCEPT !.timestamp = t.call])
              @@ sess.by
        r == Release(cs, by, HeldBut(th))
    IN  /\ t.pc = "set_61"
        /\ containers' = r.cs
        /\ sess' = [sess EXCEPT
                      !.th[th] = [t EXCEPT !.pc = "done",
                                           !.timestamp = cs[t.container].timestamp,
                                           !.returned = Some(~LogLineRaises(t.data, t.metadata))],
                      !.by = r.by]
        /\ lastSet' = [called |-> TRUE, at |-> now, data |-> t.data,
                       metadata |-> t.metadata,
                       result |-> ~LogLineRaises(t.data, t.metadata)]
        /\ UNCHANGED <<now, secret, ret, out>>

\* Line 74: a thread enters get_clipboard_data().
StartGet(th) ==
    /\ sess.th[th].pc \in {"idle", "done"}
    /\ \E g \in get_cache_container(containers, now, HeldBut(th)) :
         /\ containers' = g.cs
         /\ sess' = [sess EXCEPT
                       !.th[th] = [Idle EXCEPT !.pc = "get_75", !.op = "get",
                                               !.container = g.id],
                       !.by = [i \in DOMAIN g.cs \cap DOMAIN sess.by |-> sess.by[i]]]
    /\ UNCHANGED <<now, secret, ret, lastSet, out>>

\* Lines 75-79: timestamp = container.get("timestamp"); None returns empty
GetTimestamp(th) ==
    LET t == sess.th[th]
        c == containers[t.container]
    IN  /\ t.pc = "get_75"
        /\ IF c.timestamp = None
           THEN Returns(th, [t EXCEPT !.timestamp = c.timestamp], <<None, None>>)
           ELSE /\ sess' = [sess EXCEPT
                              !.th[th] = [t EXCEPT
                                            !.pc = "get_82", !.timestamp = c.timestamp,
                                            !.tsBy = ByOf(sess.by, t.container).timestamp]]
                /\ UNCHANGED containers
        /\ UNCHANGED <<now, secret, ret, lastSet, out>>

\* Lines 82-89: the manual TTL check on the local timestamp
GetCheckTTL(th) ==
    LET t == sess.th[th]
    IN  /\ t.pc = "get_82"
        /\ IF Expired(Val(t.timestamp), now)
           THEN Returns(th, t, <<None, None>>)
           ELSE /\ sess' = [sess EXCEPT !.th[th].pc = "get_92"]
                /\ UNCHANGED containers
        /\ UNCHANGED <<now, secret, ret, lastSet, out>>

\* Line 92, left operand: container.get("data")
GetData(th) ==
    LET t == sess.th[th]
        c == containers[t.container]
    IN  /\ t.pc = "get_92"
        /\ sess' = [sess EXCEPT
                      !.th[th] = [t EXCEPT !.pc = "get_92m", !.d = c.data,
                                           !.dBy = ByOf(sess.by, t.container).data]]
        /\ UNCHANGED <<now, containers, secret, ret, lastSet, out>>

\* Line 92, right operand and the return: container.get("metadata")
GetMetadata(th) ==
    LET t == sess.th[th]
        c == containers[t.container]
    IN  /\ t.pc = "get_92m"
        /\ Returns(th, [t EXCEPT !.mBy = ByOf(sess.by, t.container).metadata],
                   <<t.d, c.metadata>>)
        /\ UNCHANGED <<now, secret, ret, lastSet, out>>

Quiescent == \A th \in Threads : sess.th[th].pc \in {"idle", "done"}

\* C4: a get_clipboard_data that overlaps a set_clipboard_data never returns
\* a pair whose parts were written by different calls (the pair is the data
\* and metadata of one stored item), and never judges the expiry of one
\* call's payload by another call's timestamp.
C4_NoTornRead ==
    \A th \in Threads :
        LET t == sess.th[th]
        IN  (/\ t.pc = "done"
             /\ t.op = "get"
             /\ t.returned # Some(<<None, None>>))
            => /\ \E item \in Items : t.returned = Some(<<item.data, item.metadata>>)
               /\ t.dBy = t.mBy
               /\ t.dBy = t.tsBy

\* C5: once two concurrent set_clipboard_data calls have both returned, the
\* slot holds the data, metadata and timestamp of one and the same call.
C5_LastWriterWins ==
    (/\ Quiescent
     /\ \A th \in Threads : sess.th[th].op = "set"
     /\ \A th \in Threads : sess.th[th].container = CachedId(containers)
     /\ {sess.th[th].call : th \in Threads} = (sess.n - NumThreads + 1)..sess.n)
    => \E th \in Threads :
         containers[CachedId(containers)] =
            [data |-> sess.th[th].data, metadata |-> sess.th[th].metadata,
             timestamp |-> sess.th[th].timestamp]

\* C6: data is None iff timestamp is None iff metadata is None, in every
\* state of the dictionary that stores, clears and fetches of the page can
\* reach; stated here for the states in which no call is in progress.
C6_TripleAllOrNothing ==
    (Quiescent /\ DOMAIN containers # {}) =>
        LET c == containers[CachedId(containers)]
        IN  /\ (c.data = None) <=> (c.timestamp = None)
            /\ (c.timestamp = None) <=> (c.metadata = None)

\* C19: every pair get_clipboard_data returns with both parts not None
\* has a type among text, image and file; the type is text exactly when the
\* payload is a text saved from the text area, image exactly when the
\* upload's MIME type is image/..., file for the other uploads; image and
\* file items carry filename and mime_type.
C19_TypeMatchesOrigin ==
    \A th \in Threads :
        LET t == sess.th[th]
        IN  (/\ t.pc = "done"
             /\ t.op = "get"
             /\ Val(t.returned)[1] # None
             /\ Val(t.returned)[2] # None)
            => LET data == Val(Val(t.returned)[1])
                   metadata == Val(Val(t.returned)[2])
                   type == DictGet(metadata, "type", "unknown")
               IN  /\ type \in {"text", "image", "file"}
                   /\ (type = "text") <=> (data \in Texts)
                   /\ (type \in {"image", "file"}) =>
                         /\ {"filename", "mime_type"} \subseteq DOMAIN metadata
                         /\ (type = "image") <=> (metadata.mime_type[1] = "image")

NextConc ==
    \/ Tick
    \/ \E th \in Threads, item \in Items : StartSet(th, item)
    \/ \E th \in Threads : SetData(th)
    \/ \E th \in Threads : SetMetadata(th)
    \/ \E th \in Threads : SetTimestamp(th)
    \/ \E th \in Threads : StartGet(th)
    \/ \E th \in Threads : GetTimestamp(th)
    \/ \E th \in Threads : GetCheckTTL(th)
    \/ \E th \in Threads : GetData(th)
    \/ \E th \in Threads : GetMetadata(th)

SpecConc == Init /\ [][NextConc]_vars

====
